---- MODULE Spec2Model ----
(***************************************************************************)
(* State-machine model of genPlaylist.py: main's loop over the             *)
(* configuration-file arguments and, for each one, the run of              *)
(* PlaylistGenerator.genPlaylist (rule table, directory scan, random       *)
(* sampling, missing-file report, playlist write).                         *)
(*                                                                         *)
(* Text is modelled as a sequence of one-character strings, so that        *)
(* str.strip, str.split, os.path.join and os.path.abspath are computed     *)
(* and not assumed.  A section name, a file name, a path and the value of  *)
(* a configuration field are all such sequences.                           *)
(***************************************************************************)
EXTENDS Integers, Sequences, FiniteSets, TLC

VARIABLES
    nArgs,          \* len(args) of main
    argIdx,         \* number of arguments main's loop has consumed
    pc,             \* position of the program
    tags,           \* the artist tag TinyTag reads from each file on disk
    config,         \* self.config of the current PlaylistGenerator
    filePaths,      \* genPlaylist: filePaths
    excludePaths,   \* genPlaylist: excludePaths
    fileNames,      \* genPlaylist: fileNames (General)
    excludeNames,   \* genPlaylist: excludeNames (General)
    randomGeneral,  \* genPlaylist: randomGeneral
    artistRules,    \* genPlaylist: artistRules
    dirs,           \* the split value of General's dirs field
    dirIdx,         \* number of entries of dirs the scan has consumed
    directory,      \* the directory whose listing is being iterated
    listing,        \* entries of os.listdir(directory) not yet iterated
    sampleIdx,      \* number of artists the sampling loop has consumed
    crashAt,        \* section at which an exception left genPlaylist
    errLog,         \* artists with an "invalid number of random files" error
    dirLog,         \* directories with an "invalid directory" error
    missingLog,     \* <<artist, fileName>> of each "missing" warning
    writeResult,    \* what writeToPlaylist did in the current run
    playlist,       \* entries written to the output file
    token,          \* argument of a call of stripAll
    stripped        \* its result

vars == <<nArgs, argIdx, pc, tags, config, filePaths, excludePaths, fileNames,
          excludeNames, randomGeneral, artistRules, dirs, dirIdx, directory,
          listing, sampleIdx, crashAt, errLog, dirLog, missingLog, writeResult,
          playlist, token, stripped>>

runVars == <<config, filePaths, excludePaths, fileNames, excludeNames,
             randomGeneral, artistRules, dirs, dirIdx, directory, listing,
             sampleIdx, crashAt, errLog, dirLog, missingLog, writeResult,
             playlist>>

----------------------------------------------------------------------------
(* Bounds *)

\* number of configuration-file arguments given to main
MaxArgs == 2
\* largest random count a configuration declares
MaxRandom == 2
\* longest raw token handed to stripAll in StripSpec
MaxTokenLen == 5

----------------------------------------------------------------------------
(* Text *)

Range(s) == {s[i] : i \in 1..Len(s)}

\* characters str.strip() removes (the whitespace of the bounded alphabet)
Whitespace == {" ", "\t"}
\* the argument of the second strip of stripAll: "'\""
QuoteChars == {"'", "\""}

RECURSIVE lstrip(_, _)
lstrip(s, chars) ==
    IF s # <<>> /\ Head(s) \in chars THEN lstrip(Tail(s), chars) ELSE s

RECURSIVE rstrip(_, _)
rstrip(s, chars) ==
    IF s # <<>> /\ s[Len(s)] \in chars
    THEN rstrip(SubSeq(s, 1, Len(s) - 1), chars)
    ELSE s

\* str.strip(chars): every leading and every trailing character in chars
strip(s, chars) == rstrip(lstrip(s, chars), chars)

\* a plausible slip: one leading and one trailing character at most
stripOneLayer(s, chars) ==
    LET a == IF s # <<>> /\ Head(s) \in chars THEN Tail(s) ELSE s
    IN  IF a # <<>> /\ a[Len(a)] \in chars THEN SubSeq(a, 1, Len(a) - 1) ELSE a

stripAllOneLayer(string) == stripOneLayer(strip(string, Whitespace), QuoteChars)

stripAll(string) == strip(strip(string, Whitespace), QuoteChars)

\* str.split(sep) for a one-character sep: a sequence of Len-of-seps + 1 pieces
RECURSIVE splitFrom(_, _, _)
splitFrom(s, sep, piece) ==
    IF s = <<>> THEN <<piece>>
    ELSE IF Head(s) = sep THEN <<piece>> \o splitFrom(Tail(s), sep, <<>>)
    ELSE splitFrom(Tail(s), sep, Append(piece, Head(s)))

split(s, sep) == splitFrom(s, sep, <<>>)

Digit == [c \in {"0", "1", "2", "3", "4", "5", "6", "7", "8", "9"} |->
            CASE c = "0" -> 0 [] c = "1" -> 1 [] c = "2" -> 2 [] c = "3" -> 3
              [] c = "4" -> 4 [] c = "5" -> 5 [] c = "6" -> 6 [] c = "7" -> 7
              [] c = "8" -> 8 [] c = "9" -> 9]

RECURSIVE digitsValue(_)
digitsValue(s) ==
    IF s = <<>> THEN 0 ELSE 10 * digitsValue(SubSeq(s, 1, Len(s) - 1)) + Digit[s[Len(s)]]

\* int(text): text is accepted iff, with surrounding whitespace removed, it is
\* an optional sign followed by one or more digits
intBody(text) ==
    LET t == strip(text, Whitespace)
    IN  IF t # <<>> /\ Head(t) \in {"-", "+"} THEN Tail(t) ELSE t

intValid(text) ==
    intBody(text) # <<>> /\ Range(intBody(text)) \subseteq DOMAIN Digit

intValue(text) ==
    LET t == strip(text, Whitespace)
    IN  IF Head(t) = "-" THEN 0 - digitsValue(intBody(text))
        ELSE digitsValue(intBody(text))

----------------------------------------------------------------------------
(* The file system and the tags of its files *)

Cwd == <<"/">>

\* regular files on disk
Files == { <<"/", "d", "/", "a">>, <<"/", "d", "/", "b">>, <<"/", "e", "/", "a">> }

\* directories on disk, each with the names os.listdir returns for it
DirEntries ==
    (<<"/">> :> { <<"d">>, <<"e">> })
    @@ (<<"/", "d">> :> { <<"a">>, <<"b">> })
    @@ (<<"/", "e">> :> { <<"a">>, <<"s">> })
    @@ (<<"/", "e", "/", "s">> :> {})

\* os.path.abspath of a path without "." or ".." parts
abspath(path) ==
    IF path # <<>> /\ Head(path) = "/" THEN path
    ELSE IF path = <<>> THEN Cwd
    ELSE IF Cwd = <<"/">> THEN Cwd \o path
    ELSE Cwd \o <<"/">> \o path

\* os.path.join(a, b) for a relative b
join(a, b) ==
    IF a = <<>> \/ a[Len(a)] = "/" THEN a \o b ELSE a \o <<"/">> \o b

isfile(path) == path # <<>> /\ abspath(path) \in Files

isdir(path) == path # <<>> /\ abspath(path) \in DOMAIN DirEntries

listdir(path) == DirEntries[abspath(path)]

RECURSIVE basename(_)
basename(path) ==
    IF path = <<>> \/ path[Len(path)] = "/" THEN <<>>
    ELSE Append(basename(SubSeq(path, 1, Len(path) - 1)), path[Len(path)])

\* What TinyTag.get(filePath) yields for each file: it raises TinyTagException
\* ("error"), or tag.artist is None ("none"), or tag.artist is a text ("ok").
TagError == [status |-> "error", artist |-> <<>>]
TagNone == [status |-> "none", artist |-> <<>>]
Tag(text) == [status |-> "ok", artist |-> text]

TagChoices ==
    { (<<"/", "d", "/", "a">> :> Tag(<<"X">>))
        @@ (<<"/", "d", "/", "b">> :> Tag(<<"Y", "/", "X">>))
        @@ (<<"/", "e", "/", "a">> :> TagError),
      (<<"/", "d", "/", "a">> :> Tag(<<"Z", "/", "X">>))
        @@ (<<"/", "d", "/", "b">> :> Tag(<<"X">>))
        @@ (<<"/", "e", "/", "a">> :> Tag(<<"X", "/", "Y">>)),
      (<<"/", "d", "/", "a">> :> TagNone)
        @@ (<<"/", "d", "/", "b">> :> Tag(<<"X", "/", "Y">>))
        @@ (<<"/", "e", "/", "a">> :> Tag(<<"Y">>)) }

getArtist(filePath) ==
    IF tags[filePath].status # "ok" THEN <<>>
    ELSE split(tags[filePath].artist, "/")

----------------------------------------------------------------------------
(* Configuration files *)

INCLUDE_KEY == "include"
EXCLUDE_KEY == "exclude"
RANDOM_KEY == "random"
OUTPUT_PATH_KEY == "outputPath"
DIRS_KEY == "dirs"

General == <<"G", "e", "n", "e", "r", "a", "l">>
DEFAULT == <<"D", "E", "F", "A", "U", "L", "T">>
ArtistX == <<"X">>
ArtistY == <<"Y">>

NoField == [k \in {} |-> <<>>]
Field(key, text) == key :> text

NumText(k) == << CHOOSE c \in DOMAIN Digit : Digit[c] = k >>

\* values of a random field: non-numeric, empty, negative, and 1..MaxRandom
RandomTexts ==
    { <<"x">>, <<>>, <<"-", "1">> } \cup { NumText(k) : k \in 1..MaxRandom }

\* section [X] of a configuration file
XSections ==
    { i @@ e @@ r :
        i \in { Field(INCLUDE_KEY, <<>>),
                Field(INCLUDE_KEY, <<"a", ",", " ", "b">>),
                Field(INCLUDE_KEY, <<"'", "d", "/", "a", "'">>) },
        e \in { NoField,
                Field(EXCLUDE_KEY, <<"b">>),
                Field(EXCLUDE_KEY, <<"/", "d", "/", "a">>) },
        r \in { NoField } \cup { Field(RANDOM_KEY, t) : t \in RandomTexts } }

\* section [Y] of a configuration file
YSections ==
    { NoField,
      Field(INCLUDE_KEY, <<"c">>),
      Field(INCLUDE_KEY, <<"c">>) @@ Field(RANDOM_KEY, <<"1">>) }

\* section [General] of a configuration file
GeneralSections ==
    { d @@ f :
        d \in { NoField,
                Field(DIRS_KEY, <<"d", ",", "/", "d">>),
                Field(DIRS_KEY, <<"q", ",", " ", "\"", "d", "\"", " ", ",", "e">>) },
        f \in { NoField,
                Field(OUTPUT_PATH_KEY, <<"o">>),
                Field(OUTPUT_PATH_KEY, <<"o">>) @@ Field(INCLUDE_KEY, <<"a">>)
                    @@ Field(EXCLUDE_KEY, <<"b">>) } }

Optional(name, sections) ==
    { NoField } \cup { name :> s : s \in sections }

\* What ConfigParser.read yields for a configuration file: a mapping from
\* section name to section.  DEFAULT is always a key of it; the files have no
\* [DEFAULT] entries, so no section inherits a field.
Configs ==
    { (DEFAULT :> NoField) @@ g @@ x @@ y :
        g \in Optional(General, GeneralSections),
        x \in Optional(ArtistX, XSections),
        y \in Optional(ArtistY, YSections) }

\* config.keys(): DEFAULT first, then the sections in file order
FileOrder == <<DEFAULT, General, ArtistX, ArtistY>>

keys(cfg) == SelectSeq(FileOrder, LAMBDA s : s \in DOMAIN cfg)

----------------------------------------------------------------------------
(* PlaylistGenerator *)

parseFileList(section, key, paths, names) ==
    IF key \in DOMAIN section
    THEN LET entries ==
                 { stripAll(entry) :
                     entry \in Range(split(strip(section[key], Whitespace), ",")) }
         IN  [paths |-> paths \cup { abspath(entry) : entry \in { e \in entries : isfile(e) } },
              names |-> names \cup { e \in entries : ~isfile(e) /\ e # <<>> }]
    ELSE [paths |-> paths, names |-> names]

addSpecifiedFiles(cfg, section, fPaths, ePaths, fNames, eNames) ==
    IF section \notin DOMAIN cfg
    THEN [filePaths |-> fPaths, excludePaths |-> ePaths,
          fileNames |-> fNames, excludeNames |-> eNames]
    ELSE LET inc == parseFileList(cfg[section], INCLUDE_KEY, fPaths, fNames)
             exc == parseFileList(cfg[section], EXCLUDE_KEY, ePaths, eNames)
         IN  [filePaths |-> inc.paths, excludePaths |-> exc.paths,
              fileNames |-> inc.names, excludeNames |-> exc.names]

\* the test of lines 171-173
isAddAll(section) ==
    /\ \/ INCLUDE_KEY \notin DOMAIN section
       \/ Len(strip(section[INCLUDE_KEY], Whitespace)) = 0
    /\ RANDOM_KEY \notin DOMAIN section

RECURSIVE getArtistRulesLoop(_, _, _)
getArtistRulesLoop(cfg, sections, acc) ==
    IF sections = <<>> THEN acc
    ELSE LET section == Head(sections)
         IN  IF section = General
             THEN getArtistRulesLoop(cfg, Tail(sections), acc)
             ELSE LET sets == addSpecifiedFiles(cfg, section, acc.filePaths,
                                                acc.excludePaths, {}, {})
                      rule == [addAll |-> isAddAll(cfg[section]),
                               fileNames |-> sets.fileNames,
                               excludeNames |-> sets.excludeNames,
                               random |-> <<>>]
                  IN  getArtistRulesLoop(cfg, Tail(sections),
                         [rules |-> acc.rules @@ (section :> rule),
                          filePaths |-> sets.filePaths,
                          excludePaths |-> sets.excludePaths])

getArtistRules(cfg, fPaths, ePaths) ==
    getArtistRulesLoop(cfg, keys(cfg),
                       [rules |-> NoField, filePaths |-> fPaths, excludePaths |-> ePaths])

\* iteration order of the artistRules dict: insertion order
ruleOrder(cfg) == SelectSeq(keys(cfg), LAMBDA s : s # General)

\* a plausible slip: addAll is not consulted
processArtistRulesNamesOnly(rules, fPaths, filename, filePath) ==
    IF filename \in rules.excludeNames
    THEN [rules |-> rules, filePaths |-> fPaths]
    ELSE IF filename \in rules.fileNames
    THEN [rules |-> [rules EXCEPT !.fileNames = @ \ {filename}],
          filePaths |-> fPaths \cup {filePath}]
    ELSE [rules |-> [rules EXCEPT !.random = Append(@, filePath)],
          filePaths |-> fPaths]

processArtistRules(rules, fPaths, filename, filePath) ==
    IF filename \in rules.excludeNames
    THEN [rules |-> rules, filePaths |-> fPaths]
    ELSE IF rules.addAll \/ filename \in rules.fileNames
    THEN [rules |-> [rules EXCEPT !.fileNames = @ \ {filename}],
          filePaths |-> fPaths \cup {filePath}]
    ELSE [rules |-> [rules EXCEPT !.random = Append(@, filePath)],
          filePaths |-> fPaths]

\* position in artists of the first artist that has rules, 0 if there is none
RECURSIVE firstWithRules(_, _, _)
firstWithRules(artists, rules, i) ==
    IF i > Len(artists) THEN 0
    ELSE IF artists[i] \in DOMAIN rules THEN i
    ELSE firstWithRules(artists, rules, i + 1)

\* a plausible slip (no break at line 299): the last artist with rules
RECURSIVE lastWithRules(_, _, _)
lastWithRules(artists, rules, i) ==
    IF i < 1 THEN 0
    ELSE IF artists[i] \in DOMAIN rules THEN i
    ELSE lastWithRules(artists, rules, i - 1)

governingLast(artists, rules) == lastWithRules(artists, rules, Len(artists))

\* the loop of lines 292-299
governing(artists, rules) == firstWithRules(artists, rules, 1)

LocationPrefix == <<"f", "i", "l", "e", ":", "/", "/", "/">>

----------------------------------------------------------------------------
(* Actions *)

Init ==
    /\ nArgs = MaxArgs
    /\ argIdx = 0
    /\ pc = "main"
    /\ tags \in TagChoices
    /\ config = NoField
    /\ filePaths = {}
    /\ excludePaths = {}
    /\ fileNames = {}
    /\ excludeNames = {}
    /\ randomGeneral = <<>>
    /\ artistRules = NoField
    /\ dirs = <<>>
    /\ dirIdx = 0
    /\ directory = <<>>
    /\ listing = {}
    /\ sampleIdx = 0
    /\ crashAt = <<>>
    /\ errLog = {}
    /\ dirLog = {}
    /\ missingLog = {}
    /\ writeResult = "none"
    /\ playlist = {}
    /\ token = <<>>
    /\ stripped = <<>>

\* main, lines 347-351: the argument is not a file
MainSkip ==
    /\ pc = "main"
    /\ argIdx < nArgs
    /\ argIdx' = argIdx + 1
    /\ UNCHANGED <<nArgs, pc, tags, runVars, token, stripped>>

\* main, lines 347-355, __init__ (the configuration file is read) and
\* genPlaylist up to line 253 (the locals start empty)
MainStart ==
    /\ pc = "main"
    /\ argIdx < nArgs
    /\ \E cfg \in Configs : config' = cfg
    /\ argIdx' = argIdx + 1
    /\ pc' = "rules"
    /\ filePaths' = {}
    /\ excludePaths' = {}
    /\ fileNames' = {}
    /\ excludeNames' = {}
    /\ randomGeneral' = <<>>
    /\ UNCHANGED <<nArgs, tags, artistRules, dirs, dirIdx, directory, listing,
                   sampleIdx, crashAt, errLog, dirLog, missingLog, writeResult,
                   playlist, token, stripped>>

\* genPlaylist, lines 255-261
BuildRules ==
    /\ pc = "rules"
    /\ LET built == getArtistRules(config, filePaths, excludePaths)
           gen == addSpecifiedFiles(config, General, built.filePaths,
                                    built.excludePaths, fileNames, excludeNames)
       IN  /\ artistRules' = built.rules
           /\ filePaths' = gen.filePaths
           /\ excludePaths' = gen.excludePaths
           /\ fileNames' = gen.fileNames
           /\ excludeNames' = gen.excludeNames
    /\ pc' = "dirs"
    /\ UNCHANGED <<nArgs, argIdx, tags, config, randomGeneral, dirs, dirIdx,
                   directory, listing, sampleIdx, crashAt, errLog, dirLog,
                   missingLog, writeResult, playlist, token, stripped>>

\* genPlaylist, lines 264-265: self.config["General"] raises KeyError when
\* the file has no General section, and nothing catches it
ReadDirs ==
    /\ pc = "dirs"
    /\ IF General \notin DOMAIN config
       THEN /\ pc' = "crashed"
            /\ crashAt' = General
            /\ UNCHANGED dirs
       ELSE IF DIRS_KEY \in DOMAIN config[General]
       THEN /\ pc' = "scan"
            /\ dirs' = split(strip(config[General][DIRS_KEY], Whitespace), ",")
            /\ UNCHANGED crashAt
       ELSE /\ pc' = "sample"
            /\ UNCHANGED <<dirs, crashAt>>
    /\ UNCHANGED <<nArgs, argIdx, tags, config, filePaths, excludePaths,
                   fileNames, excludeNames, randomGeneral, artistRules, dirIdx,
                   directory, listing, sampleIdx, errLog, dirLog, missingLog,
                   writeResult, playlist, token, stripped>>

\* genPlaylist, lines 265-276: the next entry of dirs
NextDir ==
    /\ pc = "scan"
    /\ listing = {}
    /\ dirIdx < Len(dirs)
    /\ dirIdx' = dirIdx + 1
    /\ LET dir == stripAll(dirs[dirIdx + 1])
       IN  IF ~isdir(dir)
           THEN /\ dirLog' = dirLog \cup {dir}
                /\ UNCHANGED <<directory, listing>>
           ELSE /\ directory' = dir
                /\ listing' = listdir(dir)
                /\ UNCHANGED dirLog
    /\ UNCHANGED <<nArgs, argIdx, pc, tags, config, filePaths, excludePaths,
                   fileNames, excludeNames, randomGeneral, artistRules, dirs,
                   sampleIdx, crashAt, errLog, missingLog, writeResult, playlist,
                   token, stripped>>

\* genPlaylist, lines 276-312: one entry of the listing, in os.listdir's
\* arbitrary order
ScanFile ==
    /\ pc = "scan"
    /\ \E filename \in listing :
        LET filePath == abspath(join(directory, filename))
            artists == getArtist(filePath)
            g == governing(artists, artistRules)
        IN  /\ listing' = listing \ {filename}
            /\ IF \/ ~isfile(filePath)
                  \/ filePath \in filePaths
                  \/ filePath \in excludePaths
                  \/ filename \in excludeNames
               THEN UNCHANGED <<filePaths, fileNames, randomGeneral, artistRules>>
               ELSE IF g # 0
               THEN LET done == processArtistRules(artistRules[artists[g]], filePaths,
                                                   filename, filePath)
                    IN  /\ artistRules' = [artistRules EXCEPT ![artists[g]] = done.rules]
                        /\ filePaths' = done.filePaths
                        /\ UNCHANGED <<fileNames, randomGeneral>>
               ELSE IF filename \in fileNames
               THEN /\ filePaths' = filePaths \cup {filePath}
                    /\ fileNames' = fileNames \ {filename}
                    /\ UNCHANGED <<randomGeneral, artistRules>>
               ELSE /\ randomGeneral' = Append(randomGeneral, filePath)
                    /\ UNCHANGED <<filePaths, fileNames, artistRules>>
    /\ UNCHANGED <<nArgs, argIdx, pc, tags, config, excludePaths, excludeNames,
                   dirs, dirIdx, directory, sampleIdx, crashAt, errLog, dirLog,
                   missingLog, writeResult, playlist, token, stripped>>

\* genPlaylist: the loop of line 265 is exhausted
EndScan ==
    /\ pc = "scan"
    /\ listing = {}
    /\ dirIdx = Len(dirs)
    /\ pc' = "sample"
    /\ UNCHANGED <<nArgs, argIdx, tags, runVars, token, stripped>>

\* random.sample(population, k): ValueError unless 0 <= k <= len(population),
\* else the entries at k distinct positions
sampleRaises(population, k) == k < 0 \/ k > Len(population)

sampleOutcomes(population, k) ==
    { { population[i] : i \in picked } :
        picked \in { S \in SUBSET (1..Len(population)) : Cardinality(S) = k } }

\* genPlaylist, lines 315-332: one artist of the sampling loop
SampleArtist ==
    /\ pc = "sample"
    /\ sampleIdx < Len(ruleOrder(config))
    /\ LET artist == ruleOrder(config)[sampleIdx + 1]
           section == config[artist]
       IN  IF RANDOM_KEY \notin DOMAIN section
           THEN /\ sampleIdx' = sampleIdx + 1
                /\ UNCHANGED <<pc, filePaths, errLog, crashAt>>
           ELSE IF ~intValid(section[RANDOM_KEY])
           THEN /\ sampleIdx' = sampleIdx + 1
                /\ errLog' = errLog \cup {artist}
                /\ UNCHANGED <<pc, filePaths, crashAt>>
           ELSE IF sampleRaises(artistRules[artist].random, intValue(section[RANDOM_KEY]))
           THEN /\ pc' = "crashed"
                /\ crashAt' = artist
                /\ UNCHANGED <<sampleIdx, filePaths, errLog>>
           ELSE /\ \E chosen \in sampleOutcomes(artistRules[artist].random,
                                                intValue(section[RANDOM_KEY])) :
                       filePaths' = filePaths \cup chosen
                /\ sampleIdx' = sampleIdx + 1
                /\ UNCHANGED <<pc, errLog, crashAt>>
    /\ UNCHANGED <<nArgs, argIdx, tags, config, excludePaths, fileNames,
                   excludeNames, randomGeneral, artistRules, dirs, dirIdx,
                   directory, listing, dirLog, missingLog, writeResult, playlist,
                   token, stripped>>

\* genPlaylist, lines 334-338
Report ==
    /\ pc = "sample"
    /\ sampleIdx = Len(ruleOrder(config))
    /\ missingLog' = UNION { { <<artist, fileName>> :
                                 fileName \in artistRules[artist].fileNames } :
                               artist \in DOMAIN artistRules }
    /\ pc' = "write"
    /\ UNCHANGED <<nArgs, argIdx, tags, config, filePaths, excludePaths,
                   fileNames, excludeNames, randomGeneral, artistRules, dirs,
                   dirIdx, directory, listing, sampleIdx, crashAt, errLog, dirLog,
                   writeResult, playlist, token, stripped>>

\* genPlaylist, lines 340-342, and writeToPlaylist
Write ==
    /\ pc = "write"
    /\ IF General \notin DOMAIN config \/ OUTPUT_PATH_KEY \notin DOMAIN config[General]
       THEN /\ writeResult' = "noOutputPath"
            /\ UNCHANGED playlist
       ELSE /\ writeResult' = "written"
            /\ playlist' = { [location |-> LocationPrefix \o filePath,
                              title |-> basename(filePath)] : filePath \in filePaths }
    /\ pc' = "finished"
    /\ UNCHANGED <<nArgs, argIdx, tags, config, filePaths, excludePaths,
                   fileNames, excludeNames, randomGeneral, artistRules, dirs,
                   dirIdx, directory, listing, sampleIdx, crashAt, errLog, dirLog,
                   missingLog, token, stripped>>

\* genPlaylist returns to main's loop (line 355): the generator and the
\* locals of its run are dropped
Return ==
    /\ pc = "finished"
    /\ pc' = "main"
    /\ config' = NoField
    /\ filePaths' = {}
    /\ excludePaths' = {}
    /\ fileNames' = {}
    /\ excludeNames' = {}
    /\ randomGeneral' = <<>>
    /\ artistRules' = NoField
    /\ dirs' = <<>>
    /\ dirIdx' = 0
    /\ directory' = <<>>
    /\ listing' = {}
    /\ sampleIdx' = 0
    /\ crashAt' = <<>>
    /\ errLog' = {}
    /\ dirLog' = {}
    /\ missingLog' = {}
    /\ writeResult' = "none"
    /\ playlist' = {}
    /\ UNCHANGED <<nArgs, argIdx, tags, token, stripped>>

Next ==
    \/ MainSkip
    \/ MainStart
    \/ BuildRules
    \/ ReadDirs
    \/ NextDir
    \/ ScanFile
    \/ EndScan
    \/ SampleArtist
    \/ Report
    \/ Write
    \/ Return

Spec == Init /\ [][Next]_vars

----------------------------------------------------------------------------
(* stripAll on its own: every raw token up to MaxTokenLen characters *)

TokenChars == Whitespace \cup QuoteChars \cup {"a"}

Tokens == UNION { [1..n -> TokenChars] : n \in 0..MaxTokenLen }

StripInit ==
    /\ nArgs = 0
    /\ argIdx = 0
    /\ pc = "strip"
    /\ tags \in TagChoices
    /\ config = NoField
    /\ filePaths = {}
    /\ excludePaths = {}
    /\ fileNames = {}
    /\ excludeNames = {}
    /\ randomGeneral = <<>>
    /\ artistRules = NoField
    /\ dirs = <<>>
    /\ dirIdx = 0
    /\ directory = <<>>
    /\ listing = {}
    /\ sampleIdx = 0
    /\ crashAt = <<>>
    /\ errLog = {}
    /\ dirLog = {}
    /\ missingLog = {}
    /\ writeResult = "none"
    /\ playlist = {}
    /\ token \in Tokens
    /\ stripped = <<>>

\* one call of stripAll (lines 66-70) on a str
StripToken ==
    /\ pc = "strip"
    /\ stripped' = stripAll(token)
    /\ pc' = "stripped"
    /\ UNCHANGED <<nArgs, argIdx, tags, runVars, token>>

StripNext == StripToken

StripSpec == StripInit /\ [][StripNext]_vars

----------------------------------------------------------------------------
(* Properties *)

\* section names of the current configuration other than General
ArtistSections == DOMAIN config \ {General}

\* absolute paths of the path tokens of a field of a section
PathTokens(section, key) ==
    IF key \notin DOMAIN config[section] THEN {}
    ELSE { abspath(stripAll(entry)) :
             entry \in { e \in Range(split(config[section][key], ",")) :
                           isfile(stripAll(e)) } }

\* regular files of the directories that General's dirs field names
ScannedFiles ==
    IF General \notin DOMAIN config \/ DIRS_KEY \notin DOMAIN config[General] THEN {}
    ELSE { f \in Files :
             \E d \in Range(split(config[General][DIRS_KEY], ",")) :
                /\ isdir(stripAll(d))
                /\ \E n \in listdir(stripAll(d)) : f = abspath(join(stripAll(d), n)) }

\* the random count an artist's section declares is an integer text
DeclaresCount(artist) ==
    /\ RANDOM_KEY \in DOMAIN config[artist]
    /\ intValid(config[artist][RANDOM_KEY])

\* C1: when a run hands its file set to the playlist writer, no absolute path
\* that is a path token of an artist section's exclude field is in the set.
C1_ExcludedPathNotInFinalSet ==
    pc = "finished" =>
        \A section \in ArtistSections :
            PathTokens(section, EXCLUDE_KEY) \cap filePaths = {}

\* C2 as stated: after a finished run, every scanned file attributed (at any
\* position of the lookup's answer) to an artist with addAll = true, and
\* matching no exclusion, is in the final file set.
C2_AddAllAnyPosition ==
    pc = "finished" =>
        \A f \in ScannedFiles :
            \A i \in 1..Len(getArtist(f)) :
                LET a == getArtist(f)[i]
                IN  ( /\ a \in DOMAIN artistRules
                      /\ artistRules[a].addAll
                      /\ f \notin excludePaths
                      /\ basename(f) \notin excludeNames
                      /\ basename(f) \notin artistRules[a].excludeNames )
                    => f \in filePaths

\* C2 as amended: once the scan is over, every scanned file whose first
\* attributed artist with a rule record has addAll = true, and which matches
\* no exclusion, is in filePaths.
C2_AddAllFirstRuled ==
    pc \in {"sample", "write", "finished"} =>
        \A f \in ScannedFiles :
            \A i \in 1..Len(getArtist(f)) :
                LET a == getArtist(f)[i]
                IN  ( /\ a \in DOMAIN artistRules
                      /\ \A j \in 1..(i - 1) : getArtist(f)[j] \notin DOMAIN artistRules
                      /\ artistRules[a].addAll
                      /\ f \notin excludePaths
                      /\ basename(f) \notin excludeNames
                      /\ basename(f) \notin artistRules[a].excludeNames )
                    => f \in filePaths

\* a finished run in which a file attributed to two artists that both have
\* rule records was committed by the addAll rule of the first one
C2_Witness ==
    /\ pc = "finished"
    /\ \E f \in ScannedFiles :
        /\ Len(getArtist(f)) = 2
        /\ \A i \in 1..2 : getArtist(f)[i] \in DOMAIN artistRules
        /\ artistRules[getArtist(f)[1]].addAll
        /\ ~artistRules[getArtist(f)[2]].addAll
        /\ INCLUDE_KEY \in DOMAIN config[getArtist(f)[1]]
        /\ f \notin excludePaths
        /\ basename(f) \notin excludeNames
        /\ basename(f) \notin artistRules[getArtist(f)[1]].excludeNames
        /\ f \in filePaths

\* C3: when a run has ended, the missing-file warnings emitted are exactly
\* one per artist and include name still pending for that artist.
C3_PendingNamesReported ==
    pc \in {"finished", "crashed"} =>
        missingLog = { pair \in (DOMAIN artistRules)
                                  \X UNION { artistRules[a].fileNames :
                                               a \in DOMAIN artistRules } :
                          pair[2] \in artistRules[pair[1]].fileNames }

\* C4: a sampling step for an artist whose declared count k satisfies
\* 0 <= k <= len(randomPool) adds exactly k paths, all from the pool.
C4_SampleAddsExactlyK ==
    [][ ( /\ pc = "sample"
          /\ sampleIdx < Len(ruleOrder(config))
          /\ sampleIdx' = sampleIdx + 1
          /\ DeclaresCount(ruleOrder(config)[sampleIdx + 1])
          /\ intValue(config[ruleOrder(config)[sampleIdx + 1]][RANDOM_KEY]) >= 0
          /\ intValue(config[ruleOrder(config)[sampleIdx + 1]][RANDOM_KEY])
               <= Len(artistRules[ruleOrder(config)[sampleIdx + 1]].random) )
        => ( /\ Cardinality(filePaths') = Cardinality(filePaths)
                  + intValue(config[ruleOrder(config)[sampleIdx + 1]][RANDOM_KEY])
             /\ filePaths' \ filePaths
                  \subseteq Range(artistRules[ruleOrder(config)[sampleIdx + 1]].random) )
      ]_vars

\* C5: a declared count larger than the artist's pool never ends the run:
\* the remaining artists, the report and the write are still reached.
C5_OverdrawDoesNotEndRun ==
    ~ ( /\ pc = "crashed"
        /\ crashAt \in DOMAIN artistRules
        /\ DeclaresCount(crashAt)
        /\ intValue(config[crashAt][RANDOM_KEY]) > Len(artistRules[crashAt].random) )

\* C6: an artist whose random field is not a valid non-negative integer never
\* ends the run, and once sampling is over an error is logged for it.
C6_InvalidCountSkipped ==
    \A artist \in DOMAIN artistRules :
        ( /\ RANDOM_KEY \in DOMAIN config[artist]
          /\ \/ ~intValid(config[artist][RANDOM_KEY])
             \/ intValue(config[artist][RANDOM_KEY]) < 0 )
        => ( /\ crashAt # artist
             /\ (pc \in {"write", "finished"} => artist \in errLog) )

\* C7: no run ends main's loop while arguments remain to be processed.
C7_LaterArgumentsProcessed ==
    ~ (pc = "crashed" /\ argIdx < nArgs)

\* stripped is token without its outer whitespace and then without the
\* quote characters at both ends, layers quotes deep at most when layers > 0
StrippedIs(raw, result, bounded, layers) ==
    \E w1, q1, q2, w2 \in 0..Len(raw) :
        /\ w1 + q1 + q2 + w2 <= Len(raw)
        /\ \A k \in 1..w1 : raw[k] \in Whitespace
        /\ \A k \in (w1 + 1)..(w1 + q1) : raw[k] \in QuoteChars
        /\ \A k \in (Len(raw) - w2 - q2 + 1)..(Len(raw) - w2) : raw[k] \in QuoteChars
        /\ \A k \in (Len(raw) - w2 + 1)..Len(raw) : raw[k] \in Whitespace
        /\ result = SubSeq(raw, w1 + q1 + 1, Len(raw) - w2 - q2)
        /\ LET core == SubSeq(raw, w1 + 1, Len(raw) - w2)
           IN  core = <<>> \/ (core[1] \notin Whitespace /\ core[Len(core)] \notin Whitespace)
        /\ IF bounded
           THEN /\ q1 <= layers
                /\ q2 <= layers
                /\ (q1 < layers => (result = <<>> \/ result[1] \notin QuoteChars))
                /\ (q2 < layers =>
                       (result = <<>> \/ result[Len(result)] \notin QuoteChars))
           ELSE result = <<>> \/ (result[1] \notin QuoteChars
                                   /\ result[Len(result)] \notin QuoteChars)

\* C8 as stated: stripAll removes the surrounding whitespace and then exactly
\* one layer of quote characters, one leading and one trailing at most.
C8_OneQuoteLayer ==
    pc = "stripped" => StrippedIs(token, stripped, TRUE, 1)

\* C8 as amended: stripAll removes the surrounding whitespace and then every
\* leading and every trailing quote character, however many layers.
C8_AllQuoteLayers ==
    pc = "stripped" => StrippedIs(token, stripped, FALSE, 0)

\* 'a' inside double quotes (two layers of quotes) stripped to a
C8_Witness ==
    /\ pc = "stripped"
    /\ token = <<"\"", "'", "a", "'", "\"">>
    /\ stripped = <<"a">>

\* C9: filePaths and excludePaths have no element in common.
C9_CommittedExcludedDisjoint ==
    filePaths \cap excludePaths = {}

\* C10: a scan step for a file that passes the skip checks applies the rule
\* of the first attributed artist that has a rule record and changes no other
\* rule record, General fileNames or randomGeneral; it applies the General
\* policy, and changes no rule record, only when no attributed artist has one.
C10_FirstRuledArtistOnly ==
    [][ (pc = "scan" /\ listing # {} /\ listing' # listing) =>
          LET filename == CHOOSE n \in listing \ listing' : TRUE
              filePath == abspath(join(directory, filename))
              artists == getArtist(filePath)
              ruled == { i \in 1..Len(artists) : artists[i] \in DOMAIN artistRules }
              passes == /\ isfile(filePath)
                        /\ filePath \notin filePaths
                        /\ filePath \notin excludePaths
                        /\ filename \notin excludeNames
          IN  passes =>
                IF ruled # {}
                THEN LET first == artists[CHOOSE i \in ruled : \A j \in ruled : i <= j]
                         old == artistRules[first]
                         new == artistRules'[first]
                     IN  /\ \A a \in DOMAIN artistRules \ {first} :
                                artistRules'[a] = artistRules[a]
                         /\ DOMAIN artistRules' = DOMAIN artistRules
                         /\ fileNames' = fileNames
                         /\ randomGeneral' = randomGeneral
                         /\ IF filename \in old.excludeNames
                            THEN new = old /\ filePaths' = filePaths
                            ELSE IF old.addAll \/ filename \in old.fileNames
                            THEN /\ filePaths' = filePaths \cup {filePath}
                                 /\ new = [old EXCEPT !.fileNames = @ \ {filename}]
                            ELSE /\ filePaths' = filePaths
                                 /\ new = [old EXCEPT !.random = Append(@, filePath)]
                ELSE /\ artistRules' = artistRules
                     /\ IF filename \in fileNames
                        THEN /\ filePaths' = filePaths \cup {filePath}
                             /\ fileNames' = fileNames \ {filename}
                             /\ randomGeneral' = randomGeneral
                        ELSE /\ filePaths' = filePaths
                             /\ fileNames' = fileNames
                             /\ randomGeneral' = Append(randomGeneral, filePath)
      ]_vars

\* the scan is over; a file attributed to X and Y, which both have rule
\* records, was committed under X's rule while General still waits for a file
\* of that name and Y's record is as it was built
C10_Witness ==
    /\ pc = "sample"
    /\ {ArtistX, ArtistY} \subseteq DOMAIN artistRules
    /\ \E f \in filePaths \cap ScannedFiles :
        /\ getArtist(f) = <<ArtistX, ArtistY>>
        /\ basename(f) \in fileNames
    /\ artistRules[ArtistY].random = <<>>
    /\ artistRules[ArtistY].fileNames # {}

====
